---- MODULE Spec2Model ----
(***************************************************************************)
(* Verification model of the caching and task-orchestration core of the    *)
(* backend: CacheManager (cache_manager.py), the cached / get_or_set       *)
(* composition, key derivation, and execute_parallel_tasks                 *)
(* (optimizations.py).                                                     *)
(*                                                                         *)
(* time.time() is the integer clock `now`; Python's None is the string     *)
(* NoneVal for values and the empty sequence for an omitted Optional[int]. *)
(***************************************************************************)
EXTENDS Integers, Sequences, FiniteSets, TLC

VARIABLES
    now,          \* time.time()
    cache,        \* CacheManager.cache: key -> [value, expires_at, created_at]
    cleanupTask,  \* CacheManager._cleanup_task: "None", "running" or "done"
    sweepLoops,   \* the number of _cleanup_expired coroutines created and not finished
    written,      \* history: per key, the last set() with a positive ttl not yet invalidated
    evt,          \* history: the last operation performed, what it returned and how
                  \* many entries it deleted; for a cached call, whether its remote call failed
    pc,           \* per caller of a cached call: "idle" or "computing" (suspended at the await)
    call,         \* per caller: the key of the cached call in progress and whether its get evicted
    prev, last,   \* history: the two most recent key derivations (inputs and resulting key)
    bpc,          \* execute_parallel_tasks: "idle", "gathering", "returned" or "cancelled"
    ntasks, limit, \* the number of tasks submitted and max_concurrent
    sem,          \* the semaphore's free slots
    tpc,          \* per task: "queued" (before the semaphore), "running" or "done"
    fate,         \* history: how each task's coroutine ended
    gathered,     \* task_results: per task what asyncio.gather recorded
    results,      \* the dict built from task_results
    twin,         \* a second store, receiving the same calls as `cache`
    cpc,          \* SimpleCrawler.crawl: where the coroutine stands
    maxDepth, maxPages,  \* SimpleCrawler.max_depth, max_pages
    urlsToVisit,  \* SimpleCrawler.urls_to_visit: queue of <<url, depth>>
    visitedUrls,  \* SimpleCrawler.visited_urls
    foundUrls,    \* SimpleCrawler.found_urls
    processingTasks,  \* crawl's processing_tasks: url -> the task fetching it
    depth,        \* crawl's local variable `depth` (of the last url dequeued)
    discarded,    \* history: links returned by fetches whose result crawl never read
    message,      \* the chat request being served
    spc,          \* its response: "idle", "cached", "streaming", "ended" or "closed"
    responseChunks,  \* chat's response_chunks
    ipc,          \* ingest_docs: "idle", "waiting" (in the loop over tasks) or "done"
    researchTask, fileTask,  \* the two tasks of ingest_docs and how they ended
    response,     \* what ingest_docs answered
    vindex,       \* the Pinecone index: vector id -> the document stored under it
    upserted,     \* history: the documents that upsert_documents has written
    upsertCalls,  \* history: the number of upsert_documents calls made
    upsertCall,   \* the upsert_documents call that awaits its embeddings
    rate,         \* RateLimiter.rate
    lastCalled,   \* RateLimiter.last_called
    rpc,          \* per fetch coroutine: where it stands and when its sleep ends
    lastReturns,  \* history: when the two most recent acquire() calls returned
    holder,       \* the coroutine the event loop is running ("none": between steps)
    frames        \* per coroutine: the store operation it is in, the statement
                  \* it has reached and the operation's local variables

callVars == <<pc, call>>
keyVars == <<prev, last>>
batchVars == <<bpc, ntasks, limit, sem, tpc, fate, gathered, results>>
crawlVars == <<cpc, maxDepth, maxPages, urlsToVisit, visitedUrls, foundUrls,
               processingTasks, depth, discarded>>
chatVars == <<message, spc, responseChunks>>
ingestVars == <<ipc, researchTask, fileTask, response>>
vectorVars == <<vindex, upserted, upsertCalls, upsertCall>>
rateVars == <<rate, lastCalled, rpc, lastReturns>>
schedVars == <<holder, frames>>
moreVars == <<ingestVars, vectorVars, rateVars, schedVars>>
restVars == <<twin, crawlVars, chatVars, moreVars>>
vars == <<now, cache, cleanupTask, sweepLoops, written, evt, pc, call, prev, last,
          bpc, ntasks, limit, sem, tpc, fate, gathered, results,
          twin, cpc, maxDepth, maxPages, urlsToVisit, visitedUrls, foundUrls,
          processingTasks, depth, discarded, message, spc, responseChunks,
          ipc, researchTask, fileTask, response, vindex, upserted, upsertCalls, upsertCall,
          rate, lastCalled, rpc, lastReturns, holder, frames>>

----------------------------------------------------------------------------
(* Bounds of the model *)

MaxTime == 2
DefaultTtl == 2
MaxTtl == 1
MaxTasks == 3
MaxConcurrent == 2

(* Domains *)

NoneVal == "None"
Values == {"v1", "v2"}
KeyA1 == <<"a", ":", "1">>
KeyA2 == <<"a", ":", "2">>
KeyB1 == <<"b", ":", "1">>
Keys == {KeyA1, KeyB1}
AllKeys == Keys \cup {KeyA2}
Patterns == {<<"a", ":">>, <<"1">>}
NoTtl == <<>>
TtlArgs == {NoTtl} \cup {<<n>> : n \in -1..MaxTtl}
NoEntry == [value |-> NoneVal, deadline |-> -1]
NoDerivation ==
    [fn |-> "none", prefix |-> "", args |-> <<>>, kwargs |-> <<>>,
     key |-> [err |-> TRUE, text |-> <<>>]]
NoCount == <<>>
NoEvt ==
    [op |-> "none", key |-> <<>>, ret |-> NoneVal, count |-> 0, failed |-> FALSE,
     ttl |-> NoTtl, retn |-> NoCount, over |-> NoneVal]

----------------------------------------------------------------------------
(* CacheManager: pure parts of the operations *)

\* data.get('expires_at', 0) of a stored entry
ExpiresAt(c, k) == c[k].expires_at

Drop(c, ks) == [k \in DOMAIN c \ ks |-> c[k]]

\* a get() whose expiry test is off by one (mutation of GetRet)
GetRetInclusive(c, k, t) ==
    IF k \in DOMAIN c /\ t <= ExpiresAt(c, k) THEN c[k].value ELSE NoneVal

\* a get() that answers from whatever entry is stored, expired or not
\* (mutation of GetRet)
GetRetStale(c, k, t) ==
    IF k \in DOMAIN c THEN c[k].value ELSE NoneVal

\* get(): the value returned
GetRet(c, k, t) ==
    IF k \in DOMAIN c /\ t < ExpiresAt(c, k) THEN c[k].value ELSE NoneVal

\* a get() that deletes every expired entry of the store (mutation of GetCache)
GetCacheAllExpired(c, k, t) ==
    IF k \in DOMAIN c /\ ~(t < ExpiresAt(c, k))
    THEN Drop(c, {x \in DOMAIN c : ~(t < ExpiresAt(c, x))})
    ELSE c

\* get(): the store afterwards (an expired entry is deleted)
GetCache(c, k, t) ==
    IF k \in DOMAIN c /\ ~(t < ExpiresAt(c, k)) THEN Drop(c, {k}) ELSE c

\* get(): the number of entries it deleted
GetEvicted(c, k, t) == Cardinality(DOMAIN c \ DOMAIN GetCache(c, k, t))

\* set(): ttl = ttl or self.default_ttl
EffectiveTtl(ttl) ==
    IF ttl = NoTtl \/ ttl[1] = 0 THEN DefaultTtl ELSE ttl[1]

\* set(): the store afterwards (both time.time() reads fall in the same tick)
SetCache(c, k, v, ttl, t) ==
    [x \in DOMAIN c \cup {k} |->
        IF x = k
        THEN [value |-> v, expires_at |-> t + EffectiveTtl(ttl), created_at |-> t]
        ELSE c[x]]

\* a _start_cleanup_task() that does not look at the task it already has
\* (mutation of CreatesTask)
CreatesTaskAlways(task, inLoop) == inLoop

\* _start_cleanup_task(): get_running_loop() succeeds and
\* `self._cleanup_task is None or self._cleanup_task.done()`
CreatesTask(task, inLoop) == inLoop /\ task \in {"None", "done"}

\* _start_cleanup_task(): creates the sweep task when an event loop is
\* running and there is no task or the task is done
StartCleanupTask(task, inLoop) ==
    IF CreatesTask(task, inLoop) THEN "running" ELSE task

\* the number of sweep coroutines after _start_cleanup_task()
LoopsAfterStart(n, task, inLoop) ==
    IF CreatesTask(task, inLoop) THEN n + 1 ELSE n

\* a sweep loop that an exception ends (mutation of SweepAfterError)
SweepAfterErrorEnds(task) == "done"

\* _cleanup_expired(): `except Exception` logs the error of a cycle and
\* sleeps; the loop goes on
SweepAfterError(task) == task

\* `pattern in key` on strings
Contains(pattern, key) ==
    \E i \in 1..(Len(key) - Len(pattern) + 1) :
        SubSeq(key, i, i + Len(pattern) - 1) = pattern

\* an invalidate() that stops after the first match (mutation of KeysToRemove)
KeysToRemoveFirst(c, pattern) ==
    IF \E k \in DOMAIN c : Contains(pattern, k)
    THEN {CHOOSE k \in DOMAIN c : Contains(pattern, k)}
    ELSE {}

\* invalidate(): keys_to_remove
KeysToRemove(c, pattern) == {k \in DOMAIN c : Contains(pattern, k)}

\* _cleanup_expired(): expired_keys of one cycle
ExpiredKeys(c, t) == {k \in DOMAIN c : t > ExpiresAt(c, k)}

----------------------------------------------------------------------------
(* History bookkeeping *)

\* the write a caller passing a positive ttl is entitled to rely on
Recorded(v, ttl, t) ==
    IF ttl # NoTtl /\ ttl[1] > 0
    THEN [value |-> v, deadline |-> t + ttl[1]]
    ELSE NoEntry

\* op, its key or pattern, the value it returned, the number of entries it
\* deleted; ttl is the ttl argument of a set, retn the integer an operation
\* returned (NoCount when it returned None or a value that is no count),
\* over the value a cached call's write replaced
Stored(c, k) == IF k \in DOMAIN c THEN c[k].value ELSE NoneVal

Event(op, k, r, n) ==
    [op |-> op, key |-> k, ret |-> r, count |-> n, failed |-> FALSE,
     ttl |-> NoTtl, retn |-> NoCount, over |-> NoneVal]

----------------------------------------------------------------------------
(* CacheManager: operations as actions *)

Tick ==
    /\ now < MaxTime
    /\ now' = now + 1
    /\ evt' = NoEvt
    /\ UNCHANGED <<cache, cleanupTask, sweepLoops, written, pc, call, keyVars, batchVars, restVars>>

Get(k) ==
    /\ cache' = GetCache(cache, k, now)
    /\ evt' = Event("get", k, GetRet(cache, k, now), GetEvicted(cache, k, now))
    /\ UNCHANGED <<now, cleanupTask, sweepLoops, written, pc, call, keyVars, batchVars, restVars>>

Set(k, v, ttl, inLoop) ==
    /\ cache' = SetCache(cache, k, v, ttl, now)
    /\ cleanupTask' = StartCleanupTask(cleanupTask, inLoop)
    /\ sweepLoops' = LoopsAfterStart(sweepLoops, cleanupTask, inLoop)
    /\ written' = [written EXCEPT ![k] = Recorded(v, ttl, now)]
    /\ evt' = [Event("set", k, NoneVal, 0) EXCEPT !.ttl = ttl]
    /\ UNCHANGED <<now, pc, call, keyVars, batchVars, restVars>>

Invalidate(pattern) ==
    /\ cache' = Drop(cache, KeysToRemove(cache, pattern))
    /\ written' = [k \in AllKeys |-> IF Contains(pattern, k) THEN NoEntry ELSE written[k]]
    /\ evt' = [Event("invalidate", pattern, NoneVal, Cardinality(KeysToRemove(cache, pattern)))
                  EXCEPT !.retn = <<Cardinality(KeysToRemove(cache, pattern))>>]
    /\ UNCHANGED <<now, cleanupTask, sweepLoops, pc, call, keyVars, batchVars, restVars>>

Clear ==
    /\ cache' = Drop(cache, DOMAIN cache)
    /\ written' = [k \in AllKeys |-> NoEntry]
    /\ evt' = Event("clear", <<>>, NoneVal, Cardinality(DOMAIN cache))
    /\ UNCHANGED <<now, cleanupTask, sweepLoops, pc, call, keyVars, batchVars, restVars>>

\* one cycle of the sweep loop (scan, delete, then sleep)
CleanupCycle ==
    /\ cleanupTask = "running"
    /\ cache' = Drop(cache, ExpiredKeys(cache, now))
    /\ evt' = Event("sweep", <<>>, NoneVal, Cardinality(ExpiredKeys(cache, now)))
    /\ UNCHANGED <<now, cleanupTask, sweepLoops, written, pc, call, keyVars, batchVars, restVars>>

\* a cycle of the sweep loop in which an exception is raised, after the
\* entries in `deleted` were removed
CleanupCycleRaises(deleted) ==
    /\ cleanupTask = "running"
    /\ deleted \subseteq ExpiredKeys(cache, now)
    /\ cache' = Drop(cache, deleted)
    /\ cleanupTask' = SweepAfterError(cleanupTask)
    /\ sweepLoops' = IF SweepAfterError(cleanupTask) = "done" THEN sweepLoops - 1 ELSE sweepLoops
    /\ evt' = Event("sweep-error", <<>>, NoneVal, Cardinality(deleted))
    /\ UNCHANGED <<now, written, pc, call, keyVars, batchVars, restVars>>

----------------------------------------------------------------------------
(* Initial values of the endpoints and helpers modelled further down *)

\* a task of ingest_docs: not created, pending, returned a list or raised
NoTask == [st |-> "none", value |-> <<>>, failed |-> FALSE]
NoResponse ==
    [status |-> 0, key_concepts |-> <<>>, concept_summary |-> "", chunks_indexed |-> 0]

NoUpsert == [st |-> "idle", documents |-> <<>>, namespace |-> ""]

Fetchers == {"f1", "f2", "f3"}
Idle == [st |-> "idle", wake |-> 0]

Coroutines == {"sweep", "r1", "r2"}
NoFrame == [op |-> "none", at |-> 0, key |-> <<>>, keys |-> {}, time |-> 0, count |-> 0]

----------------------------------------------------------------------------
Callers == {"c1", "c2"}
NoCall == [key |-> <<>>, evicted |-> 0]

Init ==
    /\ now = 0
    /\ cache = <<>>
    /\ cleanupTask = "None"
    /\ sweepLoops = 0
    /\ written = [k \in AllKeys |-> NoEntry]
    /\ evt = NoEvt
    /\ pc = [c \in Callers |-> "idle"]
    /\ call = [c \in Callers |-> NoCall]
    /\ prev = NoDerivation
    /\ last = NoDerivation
    /\ bpc = "idle"
    /\ ntasks = 0
    /\ limit = 0
    /\ sem = 0
    /\ tpc = <<>>
    /\ fate = <<>>
    /\ gathered = <<>>
    /\ results = <<>>
    /\ twin = <<>>
    /\ cpc = "idle"
    /\ maxDepth = 0
    /\ maxPages = 0
    /\ urlsToVisit = <<>>
    /\ visitedUrls = {}
    /\ foundUrls = <<>>
    /\ processingTasks = <<>>
    /\ depth = 0
    /\ discarded = {}
    /\ message = [long |-> FALSE, timeSensitive |-> FALSE]
    /\ spc = "idle"
    /\ responseChunks = <<>>
    /\ ipc = "idle"
    /\ researchTask = NoTask
    /\ fileTask = NoTask
    /\ response = NoResponse
    /\ vindex = <<>>
    /\ upserted = {}
    /\ upsertCalls = 0
    /\ upsertCall = NoUpsert
    /\ rate = 0
    /\ lastCalled = 0
    /\ rpc = [f \in Fetchers |-> Idle]
    /\ lastReturns = <<>>
    /\ holder = "none"
    /\ frames = [c \in Coroutines |-> NoFrame]

NextStore ==
    \/ Tick
    \/ \E k \in Keys : Get(k)
    \/ \E k \in Keys, v \in Values \cup {NoneVal}, ttl \in TtlArgs, inLoop \in BOOLEAN :
           Set(k, v, ttl, inLoop)
    \/ \E p \in Patterns : Invalidate(p)
    \/ Clear
    \/ CleanupCycle

SpecStore == Init /\ [][NextStore]_vars

----------------------------------------------------------------------------
(* Cached calls: CacheManager.get_or_set and the wrapper made by @cached.   *)
(* Both run get(key); return on a value that is not None; otherwise await  *)
(* the wrapped coroutine and set(key, result, ttl).  The await is the only *)
(* suspension point, so a call is two atomic steps.                        *)

\* the remote call made inside the wrapped coroutine: a response or a failure
RemoteOutcomes ==
    {[ok |-> TRUE, value |-> v] : v \in Values \cup {NoneVal}}
        \cup {[ok |-> FALSE, value |-> NoneVal]}

Sites == {"async_func", "get_key_concepts", "generate_concept_summary"}

MockSummary == "mock"

Returned(v) == [raised |-> FALSE, value |-> v]
Raised == [raised |-> TRUE, value |-> NoneVal]

\* an arbitrary coroutine handed to get_or_set: returns what it got or raises
AsyncFunc(o) == IF o.ok THEN Returned(o.value) ELSE Raised

\* PerplexityService.get_key_concepts: a non-200 status, a network error or a
\* malformed body (no choices) raises; otherwise the parsed concepts
GetKeyConcepts(o) == IF o.ok /\ o.value # NoneVal THEN Returned(o.value) ELSE Raised

\* LLMService._call_llm: provider errors are caught and None is returned
CallLlm(o) == IF o.ok THEN o.value ELSE NoneVal

\* LLMService.generate_concept_summary: `if response:` else the mock summary
GenerateConceptSummary(o) ==
    IF CallLlm(o) # NoneVal THEN Returned(CallLlm(o)) ELSE Returned(MockSummary)

SiteResult(site, o) ==
    CASE site = "async_func" -> AsyncFunc(o)
      [] site = "get_key_concepts" -> GetKeyConcepts(o)
      [] site = "generate_concept_summary" -> GenerateConceptSummary(o)

\* a hit test that never hits (mutation of IsHit)
IsHitNever(r) == FALSE

\* `if cached_value is not None`
IsHit(r) == r # NoneVal

\* get_or_set / wrapper up to the await: get, then return the hit or suspend
CachedCallStart(c, k) ==
    /\ pc[c] = "idle"
    /\ cache' = GetCache(cache, k, now)
    /\ IF IsHit(GetRet(cache, k, now))
       THEN /\ evt' = Event("hit", k, GetRet(cache, k, now), GetEvicted(cache, k, now))
            /\ UNCHANGED <<pc, call>>
       ELSE /\ evt' = Event("miss", k, NoneVal, GetEvicted(cache, k, now))
            /\ pc' = [pc EXCEPT ![c] = "computing"]
            /\ call' = [call EXCEPT ![c] = [key |-> k, evicted |-> GetEvicted(cache, k, now)]]
    /\ UNCHANGED <<now, cleanupTask, sweepLoops, written, keyVars, batchVars, restVars>>

\* a resume that stores the error of a coroutine that raised (mutation of ResumeCache)
ResumeCacheNegative(c, k, res, ttl, t) == SetCache(c, k, res.value, ttl, t)

\* a resume that keeps an entry another caller stored meanwhile (mutation of
\* ResumeCache)
ResumeCacheKeepFirst(c, k, res, ttl, t) ==
    IF res.raised \/ k \in DOMAIN c THEN c ELSE SetCache(c, k, res.value, ttl, t)

\* the store after the await: an exception propagates past set(); a result is stored
ResumeCache(c, k, res, ttl, t) ==
    IF res.raised THEN c ELSE SetCache(c, k, res.value, ttl, t)

\* the await resumes: the coroutine raised (the exception propagates to the
\* caller) or it returned and set(key, result, ttl) runs before the call returns
CachedCallResume(c, res, remoteFailed, ttl) ==
    /\ pc[c] = "computing"
    /\ LET k == call[c].key
       IN /\ cache' = ResumeCache(cache, k, res, ttl, now)
          /\ IF res.raised
             THEN /\ evt' = [Event("raised", k, NoneVal, call[c].evicted)
                                EXCEPT !.failed = remoteFailed]
                  /\ UNCHANGED <<cleanupTask, sweepLoops, written>>
             ELSE /\ cleanupTask' = StartCleanupTask(cleanupTask, TRUE)
                  /\ sweepLoops' = LoopsAfterStart(sweepLoops, cleanupTask, TRUE)
                  /\ written' = [written EXCEPT ![k] = Recorded(res.value, ttl, now)]
                  /\ evt' = [Event("computed", k, res.value, call[c].evicted)
                                EXCEPT !.failed = remoteFailed,
                                       !.over = Stored(cache, k)]
    /\ pc' = [pc EXCEPT ![c] = "idle"]
    /\ call' = [call EXCEPT ![c] = NoCall]
    /\ UNCHANGED <<now, keyVars, batchVars, restVars>>

CallTtls == {NoTtl} \cup {<<n>> : n \in 1..MaxTtl}

\* what a wrapped coroutine can hand back, with whether its remote call failed
Completions == {<<SiteResult(site, o), ~o.ok>> : site \in Sites, o \in RemoteOutcomes}

NextCall ==
    \/ Tick
    \/ \E c \in Callers, k \in Keys : CachedCallStart(c, k)
    \/ \E c \in Callers, x \in Completions, ttl \in CallTtls :
           CachedCallResume(c, x[1], x[2], ttl)
    \/ CleanupCycle

SpecCall == Init /\ [][NextCall]_vars

----------------------------------------------------------------------------
(* Key derivation: CacheManager._generate_key and the key built by the      *)
(* cache_response decorator.  Text is a sequence of tokens; md5 and hash    *)
(* are taken to be injective on the text they are given.                    *)

Addresses == {"0x1", "0x2"}     \* id(arg): where an instance lives
Seeds == {"seed1", "seed2"}     \* the per-process salt of hash() on str

\* argument values: str, tuple/list of str, set of str (in iteration order),
\* and an instance with a __dict__ (class name, address)
Str(s) == [t |-> "str", items |-> <<s>>, id |-> ""]
Tuple(q) == [t |-> "tuple", items |-> q, id |-> ""]
PySet(q) == [t |-> "set", items |-> q, id |-> ""]
Obj(cls, a) == [t |-> "obj", items |-> <<cls>>, id |-> a]

\* hasattr(arg, '__dict__')
HasDict(arg) == arg.t = "obj"

\* serialize_arg: f"{arg.__class__.__name__}:{id(arg)}" for an instance
SerializeArg(arg) ==
    IF HasDict(arg)
    THEN [t |-> "str", items |-> <<arg.items[1], ":", arg.id>>, id |-> ""]
    ELSE arg

\* the positional arguments kept: a first argument with a __dict__ is skipped
KeptArgs(args) ==
    IF Len(args) > 0 /\ HasDict(args[1]) THEN Tail(args) ELSE args

\* json.dumps of one value: a string, an array (tuple and list alike);
\* a set is not JSON serializable (TypeError)
JsonOk(v) == v.t \in {"str", "tuple"}
JsonText(v) ==
    IF v.t = "str" THEN <<"s">> \o v.items ELSE <<"[">> \o v.items \o <<"]">>

RECURSIVE JsonList(_)
JsonList(vs) ==
    IF vs = <<>> THEN <<>>
    ELSE JsonText(SerializeArg(Head(vs))) \o <<",">> \o JsonList(Tail(vs))

\* keyword names in sorted order
KwNames == <<"k", "m">>

\* the kwargs object under sort_keys=True: members ordered by name
RECURSIVE JsonKwargs(_, _)
JsonKwargs(kw, i) ==
    IF i > Len(KwNames) THEN <<>>
    ELSE LET hits == {j \in 1..Len(kw) : kw[j][1] = KwNames[i]}
         IN (IF hits = {} THEN <<>>
             ELSE LET j == CHOOSE x \in hits : TRUE
                  IN <<KwNames[i]>> \o JsonText(SerializeArg(kw[j][2])) \o <<",">>)
            \o JsonKwargs(kw, i + 1)

Md5(text) == <<"md5">> \o text

KeyString(text) == [err |-> FALSE, text |-> text]
TypeError == [err |-> TRUE, text |-> <<>>]

\* _generate_key(prefix, *args, **kwargs)
GenerateKey(prefix, args, kwargs) ==
    IF /\ \A i \in 1..Len(KeptArgs(args)) : JsonOk(SerializeArg(KeptArgs(args)[i]))
       /\ \A j \in 1..Len(kwargs) : JsonOk(SerializeArg(kwargs[j][2]))
    THEN KeyString(<<prefix, ":">> \o
            Md5(<<"args">> \o JsonList(KeptArgs(args)) \o
                <<"kwargs">> \o JsonKwargs(kwargs, 1)))
    ELSE TypeError

\* repr of one value inside str(args): an instance prints its address
ReprText(v) ==
    CASE v.t = "str" -> <<"s">> \o v.items
      [] v.t = "tuple" -> <<"(">> \o v.items \o <<")">>
      [] v.t = "set" -> <<"{">> \o v.items \o <<"}">>
      [] v.t = "obj" -> <<"<">> \o v.items \o <<"at", v.id, ">">>

RECURSIVE ReprList(_)
ReprList(vs) ==
    IF vs = <<>> THEN <<>>
    ELSE ReprText(Head(vs)) \o <<",">> \o ReprList(Tail(vs))

\* str(kwargs): members in insertion order
RECURSIVE ReprKwargs(_)
ReprKwargs(kw) ==
    IF kw = <<>> THEN <<>>
    ELSE <<Head(kw)[1]>> \o ReprText(Head(kw)[2]) \o <<",">> \o ReprKwargs(Tail(kw))

\* hash() of a str is salted per process
PyHash(seed, text) == <<"hash", seed>> \o text

\* cache_response: f"{func.__name__}:{hash(str(args) + str(kwargs))}"
CacheResponseKey(name, args, kwargs, seed) ==
    KeyString(<<name, ":">> \o PyHash(seed, ReprList(args) \o ReprKwargs(kwargs)))

Derivation(fn, prefix, args, kwargs, key) ==
    [fn |-> fn, prefix |-> prefix, args |-> args, kwargs |-> kwargs, key |-> key]

DeriveGenerateKey(prefix, args, kwargs) ==
    /\ prev' = last
    /\ last' = Derivation("_generate_key", prefix, args, kwargs,
                          GenerateKey(prefix, args, kwargs))
    /\ UNCHANGED <<now, cache, cleanupTask, sweepLoops, written, evt, callVars, batchVars, restVars>>

DeriveCacheResponseKey(name, args, kwargs, seed) ==
    /\ prev' = last
    /\ last' = Derivation("cache_response", name, args, kwargs,
                          CacheResponseKey(name, args, kwargs, seed))
    /\ UNCHANGED <<now, cache, cleanupTask, sweepLoops, written, evt, callVars, batchVars, restVars>>

Prefixes == {"x", "parsed_docs"}
Instances == {Obj("Svc", a) : a \in Addresses}
ArgVals ==
    {Str("a"), Str("b"), Tuple(<<"a", "b">>), Tuple(<<"b", "a">>),
     PySet(<<"a", "b">>), PySet(<<"b", "a">>)} \cup Instances
ArgLists == {<<v>> : v \in ArgVals} \cup {<<o, v>> : o \in Instances, v \in ArgVals}
KwargLists ==
    {<< <<"k", Str("a")>>, <<"m", Str("b")>> >>,
     << <<"m", Str("b")>>, <<"k", Str("a")>> >>,
     << <<"k", Obj("Svc", "0x1")>> >>}
KeyCalls ==
    {[args |-> al, kwargs |-> <<>>] : al \in ArgLists}
        \cup {[args |-> <<Str("a")>>, kwargs |-> kw] : kw \in KwargLists}

FuncNames == {"get_cached_response"}

NextKey ==
    \/ \E p \in Prefixes, c \in KeyCalls : DeriveGenerateKey(p, c.args, c.kwargs)
    \/ \E f \in FuncNames, c \in KeyCalls, seed \in Seeds :
           DeriveCacheResponseKey(f, c.args, c.kwargs, seed)

SpecKey == Init /\ [][NextKey]_vars

----------------------------------------------------------------------------
(* execute_parallel_tasks: each (name, coroutine) runs inside                *)
(* `async with semaphore` under wait_for; gather(return_exceptions=True)    *)
(* collects what each wrapper returned or the exception that escaped it;    *)
(* the loop after the gather builds the result dict without suspending.     *)

PyNone == [ty |-> "None", s |-> ""]
PyStr(x) == [ty |-> "str", s |-> x]
ErrorDict(msg) == [ty |-> "error-dict", s |-> msg]      \* {"error": str(e)}

TaskName(i) == <<"task", i>>
ErrorKey(len) == <<"error", len>>                       \* f"error_{len(results)}"

\* how the coroutine under wait_for can end: it returns a value, raises an
\* Exception, ends in asyncio.TimeoutError (wait_for's deadline passed and
\* the coroutine was cancelled, or the coroutine raised it itself: the
\* wrapper cannot tell), or is cancelled (CancelledError)
Fates ==
    {[kind |-> "ok", v |-> PyStr("v1")], [kind |-> "ok", v |-> PyNone],
     [kind |-> "raise", v |-> PyStr("boom")],
     [kind |-> "timeout", v |-> PyNone],
     [kind |-> "cancelled", v |-> PyStr("")]}
NoFate == [kind |-> "none", v |-> PyNone]
Cancelled == [kind |-> "cancelled", v |-> PyStr("")]

Pair(name, value) == [tuple |-> TRUE, name |-> name, value |-> value]
Escaped(text) == [tuple |-> FALSE, name |-> <<"", 0>>, value |-> PyStr(text)]
NoResult == Escaped("")

\* a wrapper without the `except Exception` clause (mutation of RunWithSemaphore)
RunWithSemaphoreNoExcept(i, f) ==
    CASE f.kind = "ok" -> Pair(TaskName(i), f.v)
      [] f.kind = "timeout" -> Pair(TaskName(i), PyNone)
      [] OTHER -> Escaped(f.v.s)

\* run_with_semaphore: what gather records for the task.  CancelledError is
\* not an Exception: it escapes the try and gather records the exception.
RunWithSemaphore(i, f) ==
    CASE f.kind = "ok" -> Pair(TaskName(i), f.v)
      [] f.kind = "timeout" -> Pair(TaskName(i), PyNone)
      [] f.kind = "raise" -> Pair(TaskName(i), ErrorDict(f.v.s))
      [] f.kind = "cancelled" -> Escaped(f.v.s)

Put(d, k, v) == [x \in DOMAIN d \cup {k} |-> IF x = k THEN v ELSE d[x]]

\* the loop over task_results, from entry i on
RECURSIVE ProcessResults(_, _, _)
ProcessResults(g, i, d) ==
    IF i > Len(g) THEN d
    ELSE ProcessResults(g, i + 1,
            IF g[i].tuple
            THEN Put(d, g[i].name, g[i].value)
            ELSE Put(d, ErrorKey(Cardinality(DOMAIN d)), g[i].value))

\* a semaphore that admits a task whatever its value (mutation of CanAcquire)
CanAcquireAlways(value) == TRUE

\* asyncio.Semaphore: acquire proceeds only while a slot is free
CanAcquire(value) == value > 0

Running == {i \in 1..ntasks : tpc[i] = "running"}

\* execute_parallel_tasks(tasks, max_concurrent) is called
ExecuteParallelTasks(k, maxConcurrent) ==
    /\ bpc = "idle"
    /\ bpc' = "gathering"
    /\ ntasks' = k
    /\ limit' = maxConcurrent
    /\ sem' = maxConcurrent
    /\ tpc' = [i \in 1..k |-> "queued"]
    /\ fate' = [i \in 1..k |-> NoFate]
    /\ gathered' = [i \in 1..k |-> NoResult]
    /\ results' = <<>>
    /\ UNCHANGED <<now, cache, cleanupTask, sweepLoops, written, evt, callVars, keyVars, restVars>>

\* `async with semaphore`: the task enters
Acquire(i) ==
    /\ bpc = "gathering"
    /\ tpc[i] = "queued"
    /\ CanAcquire(sem)
    /\ sem' = sem - 1
    /\ tpc' = [tpc EXCEPT ![i] = "running"]
    /\ UNCHANGED <<bpc, ntasks, limit, fate, gathered, results>>
    /\ UNCHANGED <<now, cache, cleanupTask, sweepLoops, written, evt, callVars, keyVars, restVars>>

\* the coroutine under wait_for ends; the semaphore is released on the way out
Finish(i, f) ==
    /\ bpc = "gathering"
    /\ tpc[i] = "running"
    /\ sem' = sem + 1
    /\ tpc' = [tpc EXCEPT ![i] = "done"]
    /\ fate' = [fate EXCEPT ![i] = f]
    /\ gathered' = [gathered EXCEPT ![i] = RunWithSemaphore(i, f)]
    /\ UNCHANGED <<bpc, ntasks, limit, results>>
    /\ UNCHANGED <<now, cache, cleanupTask, sweepLoops, written, evt, callVars, keyVars, restVars>>

\* every task is done: gather returns, the loop fills results, the dict is returned
GatherReturns ==
    /\ bpc = "gathering"
    /\ \A i \in 1..ntasks : tpc[i] = "done"
    /\ results' = ProcessResults(gathered, 1, <<>>)
    /\ bpc' = "returned"
    /\ UNCHANGED <<ntasks, limit, sem, tpc, fate, gathered>>
    /\ UNCHANGED <<now, cache, cleanupTask, sweepLoops, written, evt, callVars, keyVars, restVars>>

\* the awaiting caller is cancelled: gather cancels every unfinished task and
\* CancelledError leaves execute_parallel_tasks; no dict is returned
BatchCancelled ==
    /\ bpc = "gathering"
    /\ bpc' = "cancelled"
    /\ tpc' = [i \in 1..ntasks |-> "done"]
    /\ fate' = [i \in 1..ntasks |-> IF tpc[i] = "done" THEN fate[i] ELSE Cancelled]
    /\ sem' = sem + Cardinality(Running)
    /\ UNCHANGED <<ntasks, limit, gathered, results>>
    /\ UNCHANGED <<now, cache, cleanupTask, sweepLoops, written, evt, callVars, keyVars, restVars>>

NextBatch ==
    \/ \E k \in 0..MaxTasks, m \in 1..MaxConcurrent : ExecuteParallelTasks(k, m)
    \/ \E i \in 1..ntasks : Acquire(i)
    \/ \E i \in 1..ntasks, f \in Fates : Finish(i, f)
    \/ GatherReturns
    \/ BatchCancelled

SpecBatch == Init /\ [][NextBatch]_vars

----------------------------------------------------------------------------
(* Properties of the store *)

\* C1: after set(k, v, ttl) with a positive ttl at time t and no later set,
\* invalidate or clear of k, a get(k) before t + ttl returns v and a get(k)
\* at or after t + ttl returns None.
TTLCorrectness ==
    evt.op = "get" /\ written[evt.key] # NoEntry =>
        evt.ret = IF now < written[evt.key].deadline
                  THEN written[evt.key].value
                  ELSE NoneVal

\* a get issued exactly at t + ttl found the entry and answered None
TTLCorrectnessWitness ==
    /\ evt.op = "get"
    /\ written[evt.key] # NoEntry
    /\ now = written[evt.key].deadline
    /\ evt.count = 1
    /\ evt.ret = NoneVal

----------------------------------------------------------------------------
(* Properties of cached calls *)

\* C2: a cached call issued after a successful cached call on the same key
\* and before that entry expires is a hit for every compute result: it
\* returns the earlier result and does not go on to compute.
HitAfterSuccessfulCall ==
    /\ evt.op = "miss" /\ written[evt.key] # NoEntry =>
            now >= written[evt.key].deadline
    /\ evt.op = "hit" /\ written[evt.key] # NoEntry =>
            evt.ret = written[evt.key].value

MissStep(c) == pc[c] = "idle" /\ pc'[c] = "computing"
RaiseStep(c) == pc[c] = "computing" /\ pc'[c] = "idle" /\ evt'.op = "raised"

\* C3 as stated: a cached call whose compute raised has left the store
\* exactly as it was when the call began (it deleted and wrote nothing).
FailedCallStoreUntouched ==
    evt.op = "raised" => evt.count = 0

\* C3 as amended: a cached call whose compute raises writes nothing; the
\* step that raises leaves the store unchanged, and the call's initial get
\* changes the store at most by deleting the expired entry of its own key.
NoNegativeCaching ==
    [][\A c \in Callers :
          /\ RaiseStep(c) => cache' = cache /\ written' = written
          /\ MissStep(c) =>
                /\ DOMAIN cache' \subseteq DOMAIN cache
                /\ \A k \in DOMAIN cache' : cache'[k] = cache[k]
                /\ \A k \in DOMAIN cache \ DOMAIN cache' :
                      k = call'[c].key /\ now >= cache[k].expires_at]_vars

\* a call found its key expired, evicted it, computed and raised
NoNegativeCachingWitness ==
    /\ evt.op = "raised"
    /\ evt.count = 1
    /\ evt.key \notin DOMAIN cache

\* C4: no entry is written by an invocation whose remote call failed.
RemoteFailureNeverCached ==
    ~(evt.op = "computed" /\ evt.failed)

Computing(k) == {c \in Callers : pc[c] = "computing" /\ call[c].key = k}

\* C5 as stated: at most one computation per key is in progress.
AtMostOneFreshComputation ==
    \A k \in Keys : Cardinality(Computing(k)) <= 1

\* C5 as amended: a call goes on to compute only when its own get found no
\* unexpired entry holding a value other than None (concurrent callers that
\* all missed each compute).
ComputeOnlyAfterMiss ==
    evt.op = "miss" =>
        \/ evt.key \notin DOMAIN cache
        \/ cache[evt.key].value = NoneVal

\* two callers are computing the same key at once
ConcurrentMissWitness ==
    \E k \in Keys : Cardinality(Computing(k)) = 2 /\ evt.op = "miss"

----------------------------------------------------------------------------
(* Properties of key derivation *)

\* two argument values are canonically equal when they differ at most in
\* which instance (address) carries the same content
Canon(v) == [v EXCEPT !.id = ""]
CanonArgs(args) == [i \in 1..Len(args) |-> Canon(args[i])]
CanonKwargs(kw) == {<<kw[j][1], Canon(kw[j][2])>> : j \in 1..Len(kw)}

SameRequest(d, e) ==
    /\ d.fn # "none" /\ d.fn = e.fn /\ d.prefix = e.prefix
    /\ CanonArgs(d.args) = CanonArgs(e.args)
    /\ CanonKwargs(d.kwargs) = CanonKwargs(e.kwargs)

\* C6: two derivations with the same operation name and canonically equal
\* arguments yield the same key, whatever the instance addresses and the
\* process they run in.
FingerprintDeterminism ==
    SameRequest(prev, last) => prev.key = last.key

Elements(v) == {v.items[i] : i \in 1..Len(v.items)}
IsCollection(v) == v.t \in {"tuple", "set"}

\* C7: two _generate_key derivations whose single argument lists the same set
\* of strings, in whatever order, yield the same key.
SetOrderInsensitivity ==
    /\ prev.fn = "_generate_key" /\ last.fn = "_generate_key"
    /\ prev.prefix = last.prefix
    /\ prev.kwargs = <<>> /\ last.kwargs = <<>>
    /\ Len(prev.args) = 1 /\ Len(last.args) = 1
    /\ IsCollection(prev.args[1]) /\ prev.args[1].t = last.args[1].t
    /\ Elements(prev.args[1]) = Elements(last.args[1])
    => prev.key = last.key

----------------------------------------------------------------------------
(* Properties of execute_parallel_tasks *)

\* C8: the number of tasks running inside the semaphore never exceeds
\* max_concurrent, however many tasks were submitted.
BoundedConcurrency ==
    bpc # "idle" => Cardinality(Running) <= limit

\* every slot is taken while another task is still waiting for one
BoundedConcurrencyWitness ==
    /\ bpc = "gathering"
    /\ Cardinality(Running) = limit
    /\ \E i \in 1..ntasks : tpc[i] = "queued"

\* C9: the dict a batch returns holds exactly one outcome per submitted task
\* name, keyed by that name, whatever happened to the tasks.
ResultMapComplete ==
    bpc = "returned" =>
        DOMAIN results = {TaskName(i) : i \in 1..ntasks}

TimedOutDistinguishable ==
    bpc = "returned" =>
        \A i, j \in 1..ntasks :
            fate[i].kind = "timeout" /\ fate[j].kind \in {"ok", "raise"} =>
                /\ results[TaskName(i)] # results[TaskName(j)]
                /\ tpc[i] = "done"
                /\ sem = limit

----------------------------------------------------------------------------
(* SimpleCrawler.crawl (crawler.py).  The coroutine suspends only at        *)
(* asyncio.wait and asyncio.gather; the steps in between are split at the   *)
(* loop tests, which adds no behaviour since a fetch that finishes early is *)
(* noticed at the next wait all the same.  The web is a fixed site of four  *)
(* pages of one host; a fetch succeeds or fails.                            *)

DepthBound == 2                 \* the largest max_depth tried
PagesBound == 5                 \* the largest max_pages tried
MaxConcurrentRequests == 2      \* max_concurrent_requests, scaled down

CrawledUrlsTtl == 7200

StartUrl == "p0"
Pages == {"p0", "p1", "p2", "p3", "p4"}

\* the same-host links of each page
Links(u) ==
    CASE u = "p0" -> {"p1", "p2"}
      [] u = "p1" -> {"p0", "p4"}
      [] u = "p2" -> {"p3", "p4"}
      [] u = "p3" -> {"p0", "p1"}
      [] u = "p4" -> {}

\* the sequences that list each member of S once
Orders(S) == {q \in [1..Cardinality(S) -> S] : \A x \in S : \E i \in DOMAIN q : q[i] = x}

\* _extract_links: list(set(links)), in whatever order the set iterates
ExtractLinks(u) == Orders(Links(u))

\* the key of DocumentCache.get_crawled_urls / set_crawled_urls
CrawledUrlsKey(url, md, mp) == <<"crawled_urls", url, md, mp>>

\* get_crawled_urls(...) followed by `if cached_urls:`
CachedUrlsHit(c, k, t) ==
    k \in DOMAIN c /\ t < ExpiresAt(c, k) /\ Len(c[k].value) > 0

\* a task whose fetch never ends (mutation of FetchTask)
FetchTaskStuck(d) == [depth |-> d, status |-> "stuck", links |-> <<>>]

\* asyncio.create_task(process_url_with_semaphore((current_url, depth)))
FetchTask(d) == [depth |-> d, status |-> "running", links |-> <<>>]

\* a dequeued url that is never taken for visited (mutation of AlreadyVisited)
AlreadyVisitedNever(u, seen) == FALSE

\* `if current_url in self.visited_urls: continue`
AlreadyVisited(u, seen) == u \in seen

Done == {u \in DOMAIN processingTasks : processingTasks[u].status = "done"}

\* the links a finished task hands to the loop that are put on the queue,
\* each with the depth `depth + 1`
RECURSIVE NewEntries(_, _, _)
NewEntries(links, seen, d) ==
    IF links = <<>> THEN <<>>
    ELSE (IF Head(links) \in seen THEN <<>> ELSE << <<Head(links), d + 1>> >>)
         \o NewEntries(Tail(links), seen, d)

\* the queue entries added while the done tasks are processed in the order given
RECURSIVE Consume(_, _, _, _)
Consume(order, tasks, seen, d) ==
    IF order = <<>> THEN <<>>
    ELSE NewEntries(tasks[Head(order)].links, seen, d)
         \o Consume(Tail(order), tasks, seen, d)

RECURSIVE LinkSet(_)
LinkSet(links) ==
    IF links = <<>> THEN {} ELSE {Head(links)} \cup LinkSet(Tail(links))

\* a new SimpleCrawler(max_depth, max_pages) and crawl(start_url) up to the
\* outer loop: a cached list that is not empty is returned at once.  The
\* crawls of one behaviour all use the parameters of the first.
Crawl(md, mp) ==
    /\ \/ cpc = "idle"
       \/ cpc \in {"returned", "returned-cached"} /\ md = maxDepth /\ mp = maxPages
    /\ maxDepth' = md
    /\ maxPages' = mp
    /\ visitedUrls' = {}
    /\ foundUrls' = <<>>
    /\ processingTasks' = <<>>
    /\ depth' = 0
    /\ discarded' = {}
    /\ cache' = GetCache(cache, CrawledUrlsKey(StartUrl, md, mp), now)
    /\ IF CachedUrlsHit(cache, CrawledUrlsKey(StartUrl, md, mp), now)
       THEN cpc' = "returned-cached" /\ urlsToVisit' = <<>>
       ELSE cpc' = "outer" /\ urlsToVisit' = << <<StartUrl, 0>> >>
    /\ UNCHANGED <<now, cleanupTask, sweepLoops, written, evt, callVars, keyVars, batchVars, moreVars,
                   twin, chatVars>>

\* the test of the outer while
OuterTest ==
    /\ cpc = "outer"
    /\ cpc' = IF urlsToVisit # <<>> /\ Len(foundUrls) < maxPages THEN "inner" ELSE "drain"
    /\ UNCHANGED <<maxDepth, maxPages, urlsToVisit, visitedUrls, foundUrls,
                   processingTasks, depth, discarded>>
    /\ UNCHANGED <<now, cache, cleanupTask, sweepLoops, written, evt, callVars, keyVars, batchVars, moreVars,
                   twin, chatVars>>

\* one test of the inner while and, when it holds, one pass of its body
InnerStep ==
    /\ cpc = "inner"
    /\ IF /\ Cardinality(DOMAIN processingTasks) < MaxConcurrentRequests
          /\ urlsToVisit # <<>>
          /\ Len(foundUrls) < maxPages
       THEN LET u == Head(urlsToVisit)[1]
                d == Head(urlsToVisit)[2]
            IN /\ urlsToVisit' = Tail(urlsToVisit)
               /\ depth' = d
               /\ cpc' = "inner"
               /\ IF AlreadyVisited(u, visitedUrls)
                  THEN UNCHANGED <<visitedUrls, foundUrls, processingTasks>>
                  ELSE /\ visitedUrls' = visitedUrls \cup {u}
                       /\ foundUrls' = Append(foundUrls, u)
                       /\ processingTasks' =
                             [x \in DOMAIN processingTasks \cup {u} |->
                                 IF x = u THEN FetchTask(d) ELSE processingTasks[x]]
       ELSE /\ cpc' = IF DOMAIN processingTasks # {} THEN "wait" ELSE "outer"
            /\ UNCHANGED <<urlsToVisit, visitedUrls, foundUrls, processingTasks, depth>>
    /\ UNCHANGED <<maxDepth, maxPages, discarded>>
    /\ UNCHANGED <<now, cache, cleanupTask, sweepLoops, written, evt, callVars, keyVars, batchVars, moreVars,
                   twin, chatVars>>

\* _process_single_url: the fetch of one task ends.  _fetch_html returns None
\* on any failure; links are extracted only from a page that was fetched at a
\* depth below max_depth.  (The semaphore of process_url_with_semaphore has
\* as many slots as processing_tasks may hold tasks, so it never makes a task wait.)
ProcessSingleUrl(u, ok, links) ==
    /\ u \in DOMAIN processingTasks
    /\ processingTasks[u].status = "running"
    /\ processingTasks' =
          [processingTasks EXCEPT ![u] =
              [status |-> "done", depth |-> processingTasks[u].depth,
               links |-> IF ok /\ processingTasks[u].depth < maxDepth
                         THEN links ELSE <<>>]]
    /\ UNCHANGED <<cpc, maxDepth, maxPages, urlsToVisit, visitedUrls, foundUrls,
                   depth, discarded>>
    /\ UNCHANGED <<now, cache, cleanupTask, sweepLoops, written, evt, callVars, keyVars, batchVars, moreVars,
                   twin, chatVars>>

\* asyncio.wait(FIRST_COMPLETED) returns the tasks that are done; each one's
\* links not yet visited are queued at depth + 1 and the task is removed
WaitReturns ==
    /\ cpc = "wait"
    /\ Done # {}
    /\ \E order \in Orders(Done) :
          urlsToVisit' = urlsToVisit \o Consume(order, processingTasks, visitedUrls, depth)
    /\ processingTasks' = [u \in DOMAIN processingTasks \ Done |-> processingTasks[u]]
    /\ cpc' = "outer"
    /\ UNCHANGED <<maxDepth, maxPages, visitedUrls, foundUrls, depth, discarded>>
    /\ UNCHANGED <<now, cache, cleanupTask, sweepLoops, written, evt, callVars, keyVars, batchVars, moreVars,
                   twin, chatVars>>

\* after the outer loop: gather(*processing_tasks, return_exceptions=True)
\* waits for the tasks still in the set and drops what they return; then the
\* list found is cached and returned
GatherAndReturn ==
    /\ cpc = "drain"
    /\ Done = DOMAIN processingTasks
    /\ discarded' = UNION {LinkSet(processingTasks[u].links) : u \in DOMAIN processingTasks}
    /\ cache' = SetCache(cache, CrawledUrlsKey(StartUrl, maxDepth, maxPages),
                         foundUrls, <<CrawledUrlsTtl>>, now)
    /\ cleanupTask' = StartCleanupTask(cleanupTask, TRUE)
    /\ sweepLoops' = LoopsAfterStart(sweepLoops, cleanupTask, TRUE)
    /\ cpc' = "returned"
    /\ UNCHANGED <<maxDepth, maxPages, urlsToVisit, visitedUrls, foundUrls,
                   processingTasks, depth>>
    /\ UNCHANGED <<now, written, evt, callVars, keyVars, batchVars, moreVars, twin, chatVars>>

NextCrawl ==
    \/ \E md \in 0..DepthBound, mp \in 1..PagesBound : Crawl(md, mp)
    \/ OuterTest
    \/ InnerStep
    \/ \E u \in Pages, ok \in BOOLEAN :
           \E links \in ExtractLinks(u) : ProcessSingleUrl(u, ok, links)
    \/ WaitReturns
    \/ GatherAndReturn

SpecCrawl == Init /\ [][NextCrawl]_vars

\* C12: a crawl that returns before max_pages is reached has an empty queue,
\* no fetch still running, and has read the result of every fetch: no link a
\* fetch returned was dropped while its page was still unvisited.
CrawlCompleteOnlyWhenDrained ==
    cpc = "returned" /\ Len(foundUrls) < maxPages =>
        /\ urlsToVisit = <<>>
        /\ Done = DOMAIN processingTasks
        /\ discarded \subseteq visitedUrls

----------------------------------------------------------------------------
(* The chat endpoint (api/chat.py, main.py): a cached response is served    *)
(* as it is; otherwise stream_generator passes the chunks of                *)
(* leo_service.chat_with_leo through, collects them in response_chunks, and *)
(* in its `finally` joins and caches what it has collected.                 *)

ChunksBound == 2                \* the most chunks a response has
ChatTtl == 300

ChunkData == {"c1", "c2"}

\* a message by what should_cache_response looks at: whether it has at
\* least 10 characters and whether it holds a time-sensitive keyword
Messages == [long : BOOLEAN, timeSensitive : BOOLEAN]

ShouldCacheResponse(m) == m.long /\ ~m.timeSensitive

\* get_cache_key(message, model, use_rag, use_web_search)
GetCacheKey(m) == <<"chat", m>>

\* "\n".join(response_chunks)
RECURSIVE JoinLines(_)
JoinLines(chunks) ==
    IF Len(chunks) = 1 THEN chunks[1]
    ELSE chunks[1] \o "\n" \o JoinLines(Tail(chunks))

\* `if cached_response:` a stored string that is not empty
Truthy(r) == r # NoneVal /\ r # ""

\* the `finally` of stream_generator: the store afterwards
FinallyCache(c, m, chunks, t) ==
    IF ShouldCacheResponse(m) /\ chunks # <<>>
    THEN SetCache(c, GetCacheKey(m), JoinLines(chunks), <<ChatTtl>>, t)
    ELSE c

FinallyEvent(m, chunks) ==
    IF ShouldCacheResponse(m) /\ chunks # <<>>
    THEN Event("chat-set", GetCacheKey(m), JoinLines(chunks), 0)
    ELSE NoEvt

\* POST /api/chat up to the StreamingResponse
Chat(m) ==
    /\ spc # "streaming"
    /\ message' = m
    /\ responseChunks' = <<>>
    /\ IF ShouldCacheResponse(m)
       THEN /\ cache' = GetCache(cache, GetCacheKey(m), now)
            /\ evt' = Event("chat-get", GetCacheKey(m), GetRet(cache, GetCacheKey(m), now),
                            GetEvicted(cache, GetCacheKey(m), now))
            /\ spc' = IF Truthy(GetRet(cache, GetCacheKey(m), now))
                      THEN "cached" ELSE "streaming"
       ELSE /\ spc' = "streaming"
            /\ evt' = NoEvt
            /\ UNCHANGED cache
    /\ UNCHANGED <<now, cleanupTask, sweepLoops, written, callVars, keyVars, batchVars, moreVars, twin, crawlVars>>

\* chat_with_leo yields a chunk: it is collected and passed on
StreamChunk(chunk) ==
    /\ spc = "streaming"
    /\ Len(responseChunks) < ChunksBound
    /\ responseChunks' = Append(responseChunks, chunk)
    /\ evt' = NoEvt
    /\ UNCHANGED <<message, spc>>
    /\ UNCHANGED <<now, cache, cleanupTask, sweepLoops, written, callVars, keyVars, batchVars, moreVars,
                   twin, crawlVars>>

\* chat_with_leo is exhausted: the stream has been produced to its end
StreamEnds ==
    /\ spc = "streaming"
    /\ spc' = "ended"
    /\ cache' = FinallyCache(cache, message, responseChunks, now)
    /\ cleanupTask' =
          IF cache' # cache THEN StartCleanupTask(cleanupTask, TRUE) ELSE cleanupTask
    /\ sweepLoops' =
          IF cache' # cache THEN LoopsAfterStart(sweepLoops, cleanupTask, TRUE) ELSE sweepLoops
    /\ evt' = FinallyEvent(message, responseChunks)
    /\ UNCHANGED <<message, responseChunks>>
    /\ UNCHANGED <<now, written, callVars, keyVars, batchVars, moreVars, twin, crawlVars>>

\* the stream is given up before its end (the client disconnects, the
\* request is cancelled or times out, chat_with_leo raises): the generator
\* is closed or the exception passes through it, and its `finally` runs
StreamClosed ==
    /\ spc = "streaming"
    /\ spc' = "closed"
    /\ cache' = FinallyCache(cache, message, responseChunks, now)
    /\ cleanupTask' =
          IF cache' # cache THEN StartCleanupTask(cleanupTask, TRUE) ELSE cleanupTask
    /\ sweepLoops' =
          IF cache' # cache THEN LoopsAfterStart(sweepLoops, cleanupTask, TRUE) ELSE sweepLoops
    /\ evt' = FinallyEvent(message, responseChunks)
    /\ UNCHANGED <<message, responseChunks>>
    /\ UNCHANGED <<now, written, callVars, keyVars, batchVars, moreVars, twin, crawlVars>>

NextChat ==
    \/ Tick
    \/ \E m \in Messages : Chat(m)
    \/ \E chunk \in ChunkData : StreamChunk(chunk)
    \/ StreamEnds
    \/ StreamClosed

SpecChat == Init /\ [][NextChat]_vars

\* C13: a chat response is written to the cache only by an invocation whose
\* stream was produced to its end; a stream given up before its end writes
\* nothing.
ChatCachesOnlyCompleteStream ==
    evt.op = "chat-set" => spc = "ended"

----------------------------------------------------------------------------
(* Further properties of the store *)

\* C14: a set() called with a ttl of zero or below leaves the store as it
\* was (no entry is created or overwritten).
NonPositiveTtlRejected ==
    [][evt'.op = "set" /\ evt'.ttl # NoTtl =>
          (evt'.ttl[1] <= 0 => cache' = cache)]_vars

\* C15: every stored entry expires after it was created.
ExpiresAfterCreated ==
    \A k \in DOMAIN cache : cache[k].expires_at > cache[k].created_at

\* C16: a get(k) that finds k's entry expired returns None and deletes that
\* entry and no other; a get(k) that finds k live or missing changes nothing
\* in the store.
LazyEvictionFrame ==
    [][evt'.op = "get" =>
          LET k == evt'.key
          IN IF k \in DOMAIN cache /\ now >= cache[k].expires_at
             THEN /\ evt'.ret = NoneVal
                  /\ DOMAIN cache' = DOMAIN cache \ {k}
                  /\ \A x \in DOMAIN cache' : cache'[x] = cache[x]
             ELSE cache' = cache]_vars

\* a get evicted its key while another expired entry stayed in the store
LazyEvictionWitness ==
    /\ evt.op = "get"
    /\ evt.count = 1
    /\ evt.key \notin DOMAIN cache
    /\ \E x \in DOMAIN cache : now >= cache[x].expires_at

----------------------------------------------------------------------------
(* Two stores side by side.  `cache` and `twin` receive the same calls at   *)
(* the same times; in addition an expired entry may be removed from `cache` *)
(* alone by a read of its key and from `twin` alone by a sweep cycle, so    *)
(* the two differ only in how, and whether, expired entries were removed.   *)

TwinSet(k, v, ttl) ==
    /\ cache' = SetCache(cache, k, v, ttl, now)
    /\ twin' = SetCache(twin, k, v, ttl, now)
    /\ cleanupTask' = StartCleanupTask(cleanupTask, TRUE)
    /\ sweepLoops' = LoopsAfterStart(sweepLoops, cleanupTask, TRUE)
    /\ evt' = [Event("set", k, NoneVal, 0) EXCEPT !.ttl = ttl]
    /\ UNCHANGED <<now, written, callVars, keyVars, batchVars, moreVars, crawlVars, chatVars>>

TwinGet(k) ==
    /\ cache' = GetCache(cache, k, now)
    /\ twin' = GetCache(twin, k, now)
    /\ evt' = Event("get", k, GetRet(cache, k, now), GetEvicted(cache, k, now))
    /\ UNCHANGED <<now, cleanupTask, sweepLoops, written, callVars, keyVars, batchVars, moreVars,
                   crawlVars, chatVars>>

TwinInvalidate(pattern) ==
    /\ cache' = Drop(cache, KeysToRemove(cache, pattern))
    /\ twin' = Drop(twin, KeysToRemove(twin, pattern))
    /\ evt' = [Event("invalidate", pattern, NoneVal, Cardinality(KeysToRemove(cache, pattern)))
                  EXCEPT !.retn = <<Cardinality(KeysToRemove(cache, pattern))>>]
    /\ UNCHANGED <<now, cleanupTask, sweepLoops, written, callVars, keyVars, batchVars, moreVars,
                   crawlVars, chatVars>>

TwinClear ==
    /\ cache' = Drop(cache, DOMAIN cache)
    /\ twin' = Drop(twin, DOMAIN twin)
    /\ evt' = Event("clear", <<>>, NoneVal, Cardinality(DOMAIN cache))
    /\ UNCHANGED <<now, cleanupTask, sweepLoops, written, callVars, keyVars, batchVars, moreVars,
                   crawlVars, chatVars>>

\* a read of k, whose entry has expired, reaches `cache` only
LazyRead(k) ==
    /\ k \in DOMAIN cache
    /\ ~(now < ExpiresAt(cache, k))
    /\ cache' = GetCache(cache, k, now)
    /\ evt' = Event("lazy", k, GetRet(cache, k, now), GetEvicted(cache, k, now))
    /\ UNCHANGED <<now, cleanupTask, sweepLoops, written, callVars, keyVars, batchVars, restVars>>

\* a sweep cycle reaches `twin` only
SweepTwin ==
    /\ cleanupTask = "running"
    /\ twin' = Drop(twin, ExpiredKeys(twin, now))
    /\ evt' = Event("sweep", <<>>, NoneVal, Cardinality(ExpiredKeys(twin, now)))
    /\ UNCHANGED <<now, cache, cleanupTask, sweepLoops, written, callVars, keyVars, batchVars, moreVars,
                   crawlVars, chatVars>>

NextTwin ==
    \/ Tick
    \/ \E k \in Keys, v \in Values, ttl \in TtlArgs : TwinSet(k, v, ttl)
    \/ \E k \in Keys : TwinGet(k)
    \/ \E p \in Patterns : TwinInvalidate(p)
    \/ TwinClear
    \/ \E k \in Keys : LazyRead(k)
    \/ SweepTwin

SpecTwin == Init /\ [][NextTwin]_vars

\* C17: whether an expired entry was removed by a read, was removed by the
\* sweep or is still stored, every get returns the same in both stores, now
\* and at every later time: None for an expired key, the stored value for a
\* live one.
LazySweepEquivalence ==
    \A k \in Keys : \A t \in now..MaxTime :
        GetRet(cache, k, t) = GetRet(twin, k, t)

\* the same expired entry is still stored in one store, was removed by a read
\* in the other, while a third way (the sweep) has removed another entry
LazySweepWitness ==
    /\ evt.op = "lazy"
    /\ evt.key \in DOMAIN twin
    /\ evt.key \notin DOMAIN cache
    /\ now >= twin[evt.key].expires_at
    /\ \E k \in DOMAIN cache \ DOMAIN twin : now >= cache[k].expires_at

----------------------------------------------------------------------------
(* The sweep loop over its lifetime.  asyncio.sleep returns and the event   *)
(* loop runs the task again, so a cycle that can run eventually does.       *)

NextSweep ==
    \/ Tick
    \/ \E k \in Keys : Get(k)
    \/ \E k \in Keys, ttl \in TtlArgs, inLoop \in BOOLEAN : Set(k, "v1", ttl, inLoop)
    \/ CleanupCycle
    \/ \E deleted \in SUBSET Keys : CleanupCycleRaises(deleted)

SpecSweep == Init /\ [][NextSweep]_vars /\ WF_vars(CleanupCycle)

\* C18: an exception raised in a sweep cycle leaves the sweep task running,
\* and whenever the task is running a later cycle runs to its end, after
\* which no entry whose expires_at lies in the past is stored.
SweepNeverTerminates ==
    /\ [](evt.op = "sweep-error" => cleanupTask = "running")
    /\ (cleanupTask = "running") ~> (evt.op = "sweep" /\ ExpiredKeys(cache, now) = {})
    /\ (evt.op = "sweep-error") ~> (evt.op = "sweep" /\ ExpiredKeys(cache, now) = {})

\* a cycle has just failed, after deleting one entry, with another entry
\* whose expiry lies in the past still stored and the task still running
SweepNeverTerminatesWitness ==
    /\ evt.op = "sweep-error"
    /\ evt.count = 1
    /\ cleanupTask = "running"
    /\ ExpiredKeys(cache, now) # {}

----------------------------------------------------------------------------
(* invalidate and clear on a store of three keys *)

InvalidatePatterns == Patterns \cup {<<"b">>, <<"2", ":">>}

NextInvalidate ==
    \/ Tick
    \/ \E k \in AllKeys, ttl \in {<<MaxTtl>>, <<-1>>} : Set(k, "v1", ttl, TRUE)
    \/ \E k \in AllKeys : Get(k)
    \/ \E p \in InvalidatePatterns : Invalidate(p)
    \/ Clear

SpecInvalidate == Init /\ [][NextInvalidate]_vars

\* the substring test written out for a key of three characters
IsSubstring(p, k) ==
    \/ p = <<>>
    \/ \E i \in 1..3 : \E j \in i..3 : p = [x \in 1..(j - i + 1) |-> k[x + i - 1]]

\* C19: invalidate(pattern) deletes the entries whose key contains pattern,
\* expired or not, and no other; it returns the number it deleted; the
\* entries that stay keep value and expiry.  With a:1, a:2 and b:1 stored,
\* invalidate("a:") returns 2 and get("b:1") returns what it returned before.
InvalidateExact ==
    [][evt'.op = "invalidate" =>
          LET p == evt'.key
          IN /\ DOMAIN cache' = {k \in DOMAIN cache : ~IsSubstring(p, k)}
             /\ \A k \in DOMAIN cache' : cache'[k] = cache[k]
             /\ evt'.retn = <<Cardinality(DOMAIN cache \ DOMAIN cache')>>
             /\ p = <<"a", ":">> /\ DOMAIN cache = {KeyA1, KeyA2, KeyB1} =>
                   /\ evt'.retn = <<2>>
                   /\ DOMAIN cache' = {KeyB1}
                   /\ GetRet(cache', KeyB1, now) = GetRet(cache, KeyB1, now)]_vars

\* invalidate("a:") on a:1, a:2 (one of them expired) and a live b:1 has
\* returned 2 and b:1 can still be read
InvalidateExactWitness ==
    /\ evt.op = "invalidate"
    /\ evt.key = <<"a", ":">>
    /\ evt.retn = <<2>>
    /\ DOMAIN cache = {KeyB1}
    /\ GetRet(cache, KeyB1, now) = "v1"

\* C20: clear() deletes every entry and returns the number of entries the
\* store held before the call.
ClearReturnsPriorCount ==
    evt.op = "clear" =>
        /\ DOMAIN cache = {}
        /\ evt.retn = <<evt.count>>

----------------------------------------------------------------------------
(* Further properties of key derivation and of cached calls *)

\* C21: _generate_key raises an error when one of the arguments it
\* serializes is an object instance (an argument with no canonical form).
FingerprintFailsFast ==
    /\ last.fn = "_generate_key"
    /\ \/ \E i \in 1..Len(KeptArgs(last.args)) : KeptArgs(last.args)[i].t = "obj"
       \/ \E j \in 1..Len(last.kwargs) : last.kwargs[j][2].t = "obj"
    => last.key.err

\* C22: when a cached call's compute returns, its value is the one stored
\* under its key, whatever another caller of the same key stored while the
\* compute was running: of two overlapping callers the one that finishes
\* last determines the stored value.
LastWriterWins ==
    evt.op = "computed" =>
        /\ evt.key \in DOMAIN cache
        /\ cache[evt.key].value = evt.ret

\* two callers missed on the same key; the first to finish stored its value,
\* the second has now replaced it with a different one
LastWriterWinsWitness ==
    /\ evt.op = "computed"
    /\ evt.over \in Values
    /\ evt.ret \in Values
    /\ evt.over # evt.ret
    /\ cache[evt.key].value = evt.ret
    /\ \A c \in Callers : pc[c] = "idle"

----------------------------------------------------------------------------
(* POST /api/ingest: ingest_docs runs the research task and, when a file    *)
(* was uploaded, the file task, awaits both, then builds the summary and    *)
(* Leo's first message and answers.                                         *)

storeVars == <<now, cache, cleanupTask, sweepLoops, written, evt>>
notIngestVars ==
    <<storeVars, callVars, keyVars, batchVars, twin, crawlVars, chatVars,
      vectorVars, rateVars, schedVars>>

ConceptLists == {<<>>, <<"k1">>, <<"k2">>, <<"k1", "k2">>}
ChunkLists == {<<>>, <<"ch1">>, <<"ch1", "ch2">>}
Summaries == {"llm", "mock"}

\* a value of the results dict: None or a list
NoneResult == [none |-> TRUE, list |-> <<>>]
ListResult(l) == [none |-> FALSE, list |-> l]

\* results[task_name] after the loop over the tasks: the value the task
\* returned, None when awaiting it raised
TaskResult(task) ==
    IF task.st = "raised" THEN NoneResult ELSE ListResult(task.value)

\* results.get(task_name, []): the default only when the task was not created
ResultsGet(task) ==
    IF task.st = "none" THEN ListResult(<<>>) ELSE TaskResult(task)

\* len(x) raises TypeError when x is None
LenRaises(r) == r.none

\* `if file_chunks:` then VectorStoreManager(...).upsert_documents(file_chunks,
\* "default_docs") inside try/except: the chunks are dicts, so reading
\* doc.page_content raises before anything is embedded or written, the
\* handler logs it and chunks_indexed stays 0
ChunksIndexed(file_chunks) == 0

\* ingest_docs up to the loop over the tasks: creates the research task and,
\* with a file, the file task
IngestDocs(hasFile) ==
    /\ ipc \in {"idle", "done"}
    /\ ipc' = "waiting"
    /\ researchTask' = [st |-> "pending", value |-> <<>>, failed |-> FALSE]
    /\ fileTask' = IF hasFile
                   THEN [st |-> "pending", value |-> <<>>, failed |-> FALSE]
                   ELSE NoTask
    /\ response' = NoResponse
    /\ UNCHANGED notIngestVars

\* perplexity_service.get_key_concepts ends: it returns the concepts or
\* raises (no API key, a status other than 200, a network error)
ResearchTaskEnds(raised, concepts) ==
    /\ researchTask.st = "pending"
    /\ researchTask' = IF raised
                       THEN [st |-> "raised", value |-> <<>>, failed |-> TRUE]
                       ELSE [st |-> "returned", value |-> concepts, failed |-> FALSE]
    /\ UNCHANGED <<ipc, fileTask, response, notIngestVars>>

\* process_uploaded_file ends: it returns the chunks; when parsing raises it
\* logs the error and returns []
FileTaskEnds(raised, chunks) ==
    /\ fileTask.st = "pending"
    /\ fileTask' = IF raised
                   THEN [st |-> "returned", value |-> <<>>, failed |-> TRUE]
                   ELSE [st |-> "returned", value |-> chunks, failed |-> FALSE]
    /\ UNCHANGED <<ipc, researchTask, response, notIngestVars>>

\* the loop over the tasks has awaited every task: results are extracted and
\* their lengths logged; an exception reaches the outer handler, which answers
\* 500; otherwise the summary task is created
IngestLoopEnds ==
    /\ ipc = "waiting"
    /\ researchTask.st # "pending"
    /\ fileTask.st # "pending"
    /\ LET key_concepts == ResultsGet(researchTask)
           file_chunks == ResultsGet(fileTask)
       IN IF LenRaises(key_concepts) \/ LenRaises(file_chunks)
          THEN /\ ipc' = "done"
               /\ response' = [NoResponse EXCEPT !.status = 500]
          ELSE /\ ipc' = "summary"
               /\ response' = [NoResponse EXCEPT !.key_concepts = key_concepts.list]
    /\ UNCHANGED <<researchTask, fileTask, notIngestVars>>

\* llm_service.generate_concept_summary returns: the model's text or, on any
\* failure, the mock summary; generate_first_message is awaited next
SummaryTaskEnds(summary) ==
    /\ ipc = "summary"
    /\ ipc' = "message"
    /\ response' = [response EXCEPT !.concept_summary = summary]
    /\ UNCHANGED <<researchTask, fileTask, notIngestVars>>

\* leo_service.generate_first_message returns (it never raises); the chunks
\* are indexed and the response is sent
FirstMessageEnds ==
    /\ ipc = "message"
    /\ ipc' = "done"
    /\ LET file_chunks == ResultsGet(fileTask).list
       IN response' = [response EXCEPT
                          !.status = 200,
                          !.chunks_indexed = IF Len(file_chunks) > 0
                                             THEN ChunksIndexed(file_chunks) ELSE 0]
    /\ UNCHANGED <<researchTask, fileTask, notIngestVars>>

NextIngest ==
    \/ \E hasFile \in BOOLEAN : IngestDocs(hasFile)
    \/ \E raised \in BOOLEAN, concepts \in ConceptLists : ResearchTaskEnds(raised, concepts)
    \/ \E raised \in BOOLEAN, chunks \in ChunkLists : FileTaskEnds(raised, chunks)
    \/ IngestLoopEnds
    \/ \E summary \in Summaries : SummaryTaskEnds(summary)
    \/ FirstMessageEnds

SpecIngest == Init /\ [][NextIngest]_vars

\* C23: when exactly one of the research task and the file task of a request
\* failed and the other succeeded, the request is answered successfully (200).
IngestTaskIsolation ==
    /\ ipc = "done"
    /\ fileTask.st # "none"
    /\ researchTask.failed # fileTask.failed
    => response.status = 200

----------------------------------------------------------------------------
(* The store's operations statement by statement, run by coroutines of one  *)
(* event loop: a coroutine keeps the thread until it executes an await or   *)
(* returns. frames[c].at is the next statement of the operation c is in.    *)

notSchedVars ==
    <<written, evt, callVars, keyVars, batchVars, twin, crawlVars, chatVars,
      ingestVars, vectorVars, rateVars>>

Requests == Coroutines \ {"sweep"}

\* a sweep statement that awaits after its scan (mutation of Suspends)
SuspendsAfterScan(op, at) == op = "sweep" /\ at \in {1, 3}

\* whether statement `at` of the operation is an await: get, set, invalidate
\* and clear are plain functions; of the sweep cycle's statements (scan,
\* delete, sleep) only the sleep awaits
Suspends(op, at) == op = "sweep" /\ at = 3

\* who holds the thread after c executed statement `at` of op
Yield(c, op, at, returned) ==
    IF returned \/ Suspends(op, at) THEN "none" ELSE c

\* the event loop can run c: c holds the thread or nobody does
Runnable(c) == holder \in {c, "none"}

Frame(op, at) == [NoFrame EXCEPT !.op = op, !.at = at]

\* get(key), lines 86-88: the key is looked up and the expiry compared; a
\* missing or live entry returns at once
StartGet(c, k) ==
    /\ holder = "none"
    /\ frames[c] = NoFrame
    /\ LET returned == GetCache(cache, k, now) = cache
       IN /\ frames' = [frames EXCEPT ![c] =
                           IF returned THEN NoFrame
                           ELSE [Frame("get", 2) EXCEPT !.key = k]]
          /\ holder' = Yield(c, "get", 1, returned)
    /\ UNCHANGED <<now, cache, cleanupTask, sweepLoops, notSchedVars>>

\* get(key), line 93: del self.cache[key]
GetDel(c) ==
    /\ Runnable(c)
    /\ frames[c].op = "get"
    /\ frames[c].at = 2
    /\ cache' = Drop(cache, {frames[c].key})
    /\ frames' = [frames EXCEPT ![c] = NoFrame]
    /\ holder' = Yield(c, "get", 2, TRUE)
    /\ UNCHANGED <<now, cleanupTask, sweepLoops, notSchedVars>>

\* set(key, value, ttl), lines 101-108: the entry is assigned as one dict
StartSet(c, k, v, ttl) ==
    /\ holder = "none"
    /\ frames[c] = NoFrame
    /\ cache' = SetCache(cache, k, v, ttl, now)
    /\ frames' = [frames EXCEPT ![c] = [Frame("set", 2) EXCEPT !.key = k]]
    /\ holder' = Yield(c, "set", 1, FALSE)
    /\ UNCHANGED <<now, cleanupTask, sweepLoops, notSchedVars>>

\* set(key, value, ttl), line 111: _start_cleanup_task(); a created sweep
\* task starts at its scan
SetStartCleanup(c) ==
    /\ Runnable(c)
    /\ frames[c].op = "set"
    /\ frames[c].at = 2
    /\ cleanupTask' = StartCleanupTask(cleanupTask, TRUE)
    /\ sweepLoops' = LoopsAfterStart(sweepLoops, cleanupTask, TRUE)
    /\ frames' = [frames EXCEPT
                     ![c] = NoFrame,
                     !["sweep"] = IF CreatesTask(cleanupTask, TRUE)
                                  THEN Frame("sweep", 1) ELSE @]
    /\ holder' = Yield(c, "set", 2, TRUE)
    /\ UNCHANGED <<now, cache, notSchedVars>>

\* invalidate(pattern), line 132: keys_to_remove is collected
StartInvalidate(c, pattern) ==
    /\ holder = "none"
    /\ frames[c] = NoFrame
    /\ frames' = [frames EXCEPT ![c] =
                     [Frame("invalidate", 2) EXCEPT
                         !.key = pattern, !.keys = KeysToRemove(cache, pattern)]]
    /\ holder' = Yield(c, "invalidate", 1, FALSE)
    /\ UNCHANGED <<now, cache, cleanupTask, sweepLoops, notSchedVars>>

\* invalidate(pattern), lines 133-134: the collected keys are deleted
InvalidateDel(c) ==
    /\ Runnable(c)
    /\ frames[c].op = "invalidate"
    /\ frames[c].at = 2
    /\ cache' = Drop(cache, frames[c].keys)
    /\ frames' = [frames EXCEPT ![c] = NoFrame]
    /\ holder' = Yield(c, "invalidate", 2, TRUE)
    /\ UNCHANGED <<now, cleanupTask, sweepLoops, notSchedVars>>

\* clear(), line 141: count = len(self.cache)
StartClear(c) ==
    /\ holder = "none"
    /\ frames[c] = NoFrame
    /\ frames' = [frames EXCEPT ![c] =
                     [Frame("clear", 2) EXCEPT !.count = Cardinality(DOMAIN cache)]]
    /\ holder' = Yield(c, "clear", 1, FALSE)
    /\ UNCHANGED <<now, cache, cleanupTask, sweepLoops, notSchedVars>>

\* clear(), line 142: self.cache.clear()
ClearAll(c) ==
    /\ Runnable(c)
    /\ frames[c].op = "clear"
    /\ frames[c].at = 2
    /\ cache' = Drop(cache, DOMAIN cache)
    /\ frames' = [frames EXCEPT ![c] = NoFrame]
    /\ holder' = Yield(c, "clear", 2, TRUE)
    /\ UNCHANGED <<now, cleanupTask, sweepLoops, notSchedVars>>

\* _cleanup_expired(), lines 35-40: the task is resumed (first run, or its
\* sleep is over) and collects expired_keys
SweepScan ==
    /\ holder = "none"
    /\ frames["sweep"].op = "sweep"
    /\ frames["sweep"].at = 1
    /\ frames' = [frames EXCEPT !["sweep"] =
                     [Frame("sweep", 2) EXCEPT
                         !.keys = ExpiredKeys(cache, now), !.time = now]]
    /\ holder' = Yield("sweep", "sweep", 1, FALSE)
    /\ UNCHANGED <<now, cache, cleanupTask, sweepLoops, notSchedVars>>

\* _cleanup_expired(), lines 42-43: the collected keys are deleted (a key
\* that is gone raises KeyError, which ends the deletions of this cycle)
SweepDel ==
    /\ Runnable("sweep")
    /\ frames["sweep"].op = "sweep"
    /\ frames["sweep"].at = 2
    /\ cache' = IF frames["sweep"].keys \subseteq DOMAIN cache
                THEN Drop(cache, frames["sweep"].keys)
                ELSE cache
    /\ frames' = [frames EXCEPT !["sweep"] = [@ EXCEPT !.at = 3]]
    /\ holder' = Yield("sweep", "sweep", 2, FALSE)
    /\ UNCHANGED <<now, cleanupTask, sweepLoops, notSchedVars>>

\* _cleanup_expired(), lines 49 and 53: await asyncio.sleep(...); the loop
\* starts over when the task is resumed
SweepSleep ==
    /\ Runnable("sweep")
    /\ frames["sweep"].op = "sweep"
    /\ frames["sweep"].at = 3
    /\ frames' = [frames EXCEPT !["sweep"] = Frame("sweep", 1)]
    /\ holder' = Yield("sweep", "sweep", 3, FALSE)
    /\ UNCHANGED <<now, cache, cleanupTask, sweepLoops, notSchedVars>>

NextAtomic ==
    \/ Tick
    \/ \E c \in Requests, k \in Keys : StartGet(c, k)
    \/ \E c \in Requests : GetDel(c)
    \/ \E c \in Requests, k \in Keys, v \in Values, ttl \in TtlArgs : StartSet(c, k, v, ttl)
    \/ \E c \in Requests : SetStartCleanup(c)
    \/ \E c \in Requests, pattern \in Patterns : StartInvalidate(c, pattern)
    \/ \E c \in Requests : InvalidateDel(c)
    \/ \E c \in Requests : StartClear(c)
    \/ \E c \in Requests : ClearAll(c)
    \/ SweepScan
    \/ SweepDel
    \/ SweepSleep

SpecAtomic == Init /\ [][NextAtomic]_vars

\* a coroutine that has executed a statement of an operation and has not
\* yet left the operation (the sweep: between its scan and its sleep)
MidOp(c) == frames[c].op # "none" /\ frames[c].at > 1

\* C24: at most one coroutine is inside a store operation at any time; what
\* an operation collected in its first statement still describes the map when
\* its next statement runs (the expired entry a get is about to delete, the
\* keys an invalidate or a sweep cycle is about to delete, the count of a
\* clear); and every stored entry has all of its fields.
StoreOpsAtomic ==
    /\ \A c, d \in Coroutines : MidOp(c) /\ MidOp(d) => c = d
    /\ \A c \in Coroutines : MidOp(c) => holder = c
    /\ \A c \in Requests :
          /\ frames[c].op = "get" =>
                /\ frames[c].key \in DOMAIN cache
                /\ GetRet(cache, frames[c].key, now) = NoneVal
          /\ frames[c].op = "invalidate" =>
                frames[c].keys = KeysToRemove(cache, frames[c].key)
          /\ frames[c].op = "clear" =>
                frames[c].count = Cardinality(DOMAIN cache)
    /\ frames["sweep"].at = 2 =>
          frames["sweep"].keys = ExpiredKeys(cache, frames["sweep"].time)
    /\ \A k \in DOMAIN cache : DOMAIN cache[k] = {"value", "expires_at", "created_at"}

\* a sweep cycle has scanned a map holding an expired and a live entry and is
\* about to delete the expired one
StoreOpsAtomicWitness ==
    /\ frames["sweep"].at = 2
    /\ frames["sweep"].keys # {}
    /\ frames["sweep"].keys # DOMAIN cache
    /\ sweepLoops = 1

----------------------------------------------------------------------------
(* VectorStoreManager.upsert_documents: embeddings come from VectorCache or *)
(* from the embedding service, the vectors are written to the index in      *)
(* batches under the ids f"{namespace}-{i}".                                *)

notVectorVars ==
    <<written, evt, callVars, keyVars, batchVars, twin, crawlVars, chatVars,
      ingestVars, rateVars, schedVars>>

MaxUpserts == 3
EmbeddingsTtl == 86400
BatchSize == 100

Namespaces == {"ns1", "ns2"}
DocLists == {<<>>, <<"t1">>, <<"t2">>, <<"t1", "t2">>, <<"t2", "t3">>}

\* aembed_documents(texts): one embedding per text
Embed(texts) == [i \in 1..Len(texts) |-> <<"e", texts[i]>>]

\* VectorCache: cache_manager._generate_key("embeddings", texts)
EmbeddingsKey(texts) == GenerateKey("embeddings", <<Tuple(texts)>>, <<>>).text

\* `if cached_embeddings:` a stored list that is not empty
CachedEmbeddingsHit(c, texts, t) ==
    /\ EmbeddingsKey(texts) \in DOMAIN c
    /\ t < ExpiresAt(c, EmbeddingsKey(texts))
    /\ Len(c[EmbeddingsKey(texts)].value) > 0

\* "id": f"{namespace}-{i}"
VectorId(namespace, i) == <<namespace, "-", i>>

\* the vectors of one call: enumerate(zip(texts, embeds, metadatas)), i from 0
Vectors(texts, embeds, namespace, n) ==
    LET m == IF Len(texts) < Len(embeds) THEN Len(texts) ELSE Len(embeds)
    IN [i \in 0..(m - 1) |->
           [id |-> VectorId(namespace, i), values |-> embeds[i + 1],
            text |-> texts[i + 1], call |-> n]]

\* range(0, len(vectors), batch_size): the number of the batch holding vector i
BatchOf(i) == i \div BatchSize

\* the vectors whose batch the index accepted
Accepted(vectors, failedBatches) ==
    {i \in DOMAIN vectors : BatchOf(i) \notin failedBatches}

\* index.upsert(vectors=batch): a vector replaces the one stored under its id
IndexUpsert(index, vectors, failedBatches) ==
    LET ok == Accepted(vectors, failedBatches)
        ids == {vectors[i].id : i \in ok}
    IN [id \in DOMAIN index \cup ids |->
           IF id \in ids
           THEN LET i == CHOOSE j \in ok : vectors[j].id = id
                IN [values |-> vectors[i].values, text |-> vectors[i].text,
                    call |-> vectors[i].call]
           ELSE index[id]]

\* the documents a call wrote, as (namespace, text)
Written(vectors, failedBatches) ==
    {[namespace |-> vectors[i].id[1], text |-> vectors[i].text] :
        i \in Accepted(vectors, failedBatches)}

FailedBatches(texts) == SUBSET {BatchOf(i) : i \in 0..(Len(texts) - 1)}

\* upsert_documents(documents, namespace) up to its await: the embeddings
\* are looked up; on a hit the vectors are written and the call returns
UpsertDocuments(documents, namespace, failedBatches) ==
    /\ upsertCall.st = "idle"
    /\ upsertCalls < MaxUpserts
    /\ failedBatches \in FailedBatches(documents)
    /\ cache' = GetCache(cache, EmbeddingsKey(documents), now)
    /\ IF CachedEmbeddingsHit(cache, documents, now)
       THEN LET embeds == cache[EmbeddingsKey(documents)].value
                vectors == Vectors(documents, embeds, namespace, upsertCalls + 1)
            IN /\ vindex' = IndexUpsert(vindex, vectors, failedBatches)
               /\ upserted' = upserted \cup Written(vectors, failedBatches)
               /\ upsertCalls' = upsertCalls + 1
               /\ UNCHANGED upsertCall
       ELSE /\ upsertCall' = [st |-> "embedding", documents |-> documents,
                              namespace |-> namespace]
            /\ UNCHANGED <<vindex, upserted, upsertCalls>>
    /\ UNCHANGED <<now, cleanupTask, sweepLoops, notVectorVars>>

\* aembed_documents returns: the embeddings are cached for 24 hours and the
\* vectors written; when it raises, the exception leaves upsert_documents
EmbeddingReturns(raised, failedBatches) ==
    /\ upsertCall.st = "embedding"
    /\ failedBatches \in FailedBatches(upsertCall.documents)
    /\ upsertCall' = NoUpsert
    /\ upsertCalls' = upsertCalls + 1
    /\ IF raised
       THEN UNCHANGED <<cache, cleanupTask, sweepLoops, vindex, upserted>>
       ELSE LET texts == upsertCall.documents
                embeds == Embed(texts)
                vectors == Vectors(texts, embeds, upsertCall.namespace, upsertCalls + 1)
            IN /\ cache' = SetCache(cache, EmbeddingsKey(texts), embeds,
                                    <<EmbeddingsTtl>>, now)
               /\ cleanupTask' = StartCleanupTask(cleanupTask, TRUE)
               /\ sweepLoops' = LoopsAfterStart(sweepLoops, cleanupTask, TRUE)
               /\ vindex' = IndexUpsert(vindex, vectors, failedBatches)
               /\ upserted' = upserted \cup Written(vectors, failedBatches)
    /\ UNCHANGED <<now, notVectorVars>>

NextVector ==
    \/ \E documents \in DocLists, namespace \in Namespaces, failedBatches \in SUBSET {0} :
           UpsertDocuments(documents, namespace, failedBatches)
    \/ \E raised \in BOOLEAN, failedBatches \in SUBSET {0} :
           EmbeddingReturns(raised, failedBatches)

SpecVector == Init /\ [][NextVector]_vars

\* C25: the index holds a vector for every document that upsert_documents
\* has written into a namespace: no document written by an earlier call was
\* replaced by a different document of a later call.
UniqueVectorIds ==
    \A d \in upserted :
        \E id \in DOMAIN vindex :
            /\ id[1] = d.namespace
            /\ vindex[id].text = d.text

----------------------------------------------------------------------------
(* Further properties of SimpleCrawler.crawl *)

\* every page fetch eventually ends and the crawl coroutine is scheduled
SpecCrawlFair ==
    /\ Init
    /\ [][NextCrawl]_vars
    /\ WF_vars(OuterTest)
    /\ WF_vars(InnerStep)
    /\ WF_vars(WaitReturns)
    /\ WF_vars(GatherAndReturn)
    /\ WF_vars(\E u \in Pages, ok \in BOOLEAN :
                 \E links \in ExtractLinks(u) : ProcessSingleUrl(u, ok, links))

\* C26: when the loop queues the links of a finished fetch, the depth it
\* gives them is one more than the depth of the page that was fetched.
QueuedDepthIsParentPlusOne ==
    [][cpc = "wait" /\ cpc' = "outer" =>
          \A u \in Done :
              NewEntries(processingTasks[u].links, visitedUrls, depth) # <<>> =>
                  depth + 1 = processingTasks[u].depth + 1]_vars

NoDuplicates(q) == \A i, j \in 1..Len(q) : q[i] = q[j] => i = j

\* C27: during a crawl and in the list it returns (and caches), found_urls
\* holds no url twice and at most max_pages urls.
FoundUrlsUniqueAndBounded ==
    /\ cpc # "idle" =>
          /\ NoDuplicates(foundUrls)
          /\ Len(foundUrls) <= maxPages
    /\ \A k \in DOMAIN cache :
          /\ NoDuplicates(cache[k].value)
          /\ Len(cache[k].value) <= k[4]

\* the loop is about to dequeue a url that was queued twice and has been
\* visited since, one url short of max_pages
FoundUrlsWitness ==
    /\ cpc = "inner"
    /\ Cardinality(DOMAIN processingTasks) < MaxConcurrentRequests
    /\ Len(foundUrls) = maxPages - 1
    /\ urlsToVisit # <<>>
    /\ Head(urlsToVisit)[1] \in visitedUrls

\* C28: a crawl that has started eventually returns.
CrawlTerminates ==
    cpc \in {"outer", "inner", "wait", "drain"} ~> cpc = "returned"

\* a crawl over the whole cyclic site has returned
CrawlTerminatesWitness ==
    /\ cpc = "returned"
    /\ Len(foundUrls) = 4
    /\ "p3" \in visitedUrls

----------------------------------------------------------------------------
(* scraper.py: the RateLimiter of crawl_website_enhanced and the fetch      *)
(* coroutines that call acquire() inside `async with sem`.                  *)

notRateVars ==
    <<cache, cleanupTask, sweepLoops, written, callVars, keyVars, batchVars, twin,
      crawlVars, chatVars, ingestVars, vectorVars, schedVars>>

MaxRate == 2          \* the largest rate tried, in clock ticks
MaxConcurrency == 2   \* the largest max_concurrency tried
Epoch == 10           \* time.time() when the model's clock reads 0

\* time.time()
TimeTime(t) == Epoch + t

\* the coroutines inside `async with sem`
InsideSem == {f \in Fetchers : rpc[f].st # "idle"}

\* the two most recent returns of acquire(), oldest first
Returned2(rs, t) == IF rs = <<>> THEN <<t>> ELSE <<rs[Len(rs)], t>>

\* crawl_website_enhanced: rate_limiter = RateLimiter(rate_limit), before
\* any fetch of the crawl is started
NewRateLimiter(r) ==
    /\ InsideSem = {}
    /\ rate' = r
    /\ lastCalled' = 0
    /\ lastReturns' = <<>>
    /\ UNCHANGED <<now, evt, rpc, notRateVars>>

\* fetch_page_with_retry enters the semaphore and calls acquire(): with
\* time_since_last < rate the coroutine sleeps for the difference, otherwise
\* last_called is set and acquire returns
RateLimiterAcquire(f) ==
    /\ rate > 0
    /\ rpc[f].st = "idle"
    /\ Cardinality(InsideSem) < MaxConcurrency
    /\ LET time_since_last == TimeTime(now) - lastCalled
       IN IF time_since_last < rate
          THEN /\ rpc' = [rpc EXCEPT ![f] =
                             [st |-> "sleeping",
                              wake |-> TimeTime(now) + (rate - time_since_last)]]
               /\ UNCHANGED <<lastCalled, lastReturns>>
          ELSE /\ rpc' = [rpc EXCEPT ![f] = [st |-> "fetching", wake |-> 0]]
               /\ lastCalled' = TimeTime(now)
               /\ lastReturns' = Returned2(lastReturns, TimeTime(now))
    /\ UNCHANGED <<now, evt, rate, notRateVars>>

\* asyncio.sleep is over: last_called = time.time() and acquire returns
AcquireWakes(f) ==
    /\ rpc[f].st = "sleeping"
    /\ TimeTime(now) >= rpc[f].wake
    /\ rpc' = [rpc EXCEPT ![f] = [st |-> "fetching", wake |-> 0]]
    /\ lastCalled' = TimeTime(now)
    /\ lastReturns' = Returned2(lastReturns, TimeTime(now))
    /\ UNCHANGED <<now, evt, rate, notRateVars>>

\* client.get returns or raises: the coroutine leaves the semaphore
FetchEnds(f) ==
    /\ rpc[f].st = "fetching"
    /\ rpc' = [rpc EXCEPT ![f] = Idle]
    /\ UNCHANGED <<now, evt, rate, lastCalled, lastReturns, notRateVars>>

NextRate ==
    \/ Tick
    \/ \E r \in 1..MaxRate : NewRateLimiter(r)
    \/ \E f \in Fetchers : RateLimiterAcquire(f)
    \/ \E f \in Fetchers : AcquireWakes(f)
    \/ \E f \in Fetchers : FetchEnds(f)

SpecRate == Init /\ [][NextRate]_vars

\* C29: two consecutive returns of acquire() on one RateLimiter are at least
\* `rate` apart.
AcquireSpacing ==
    Len(lastReturns) = 2 => lastReturns[2] - lastReturns[1] >= rate

----------------------------------------------------------------------------
(* The number of sweep tasks *)

\* C30: at most one unfinished sweep task exists at any time.
AtMostOneSweepTask == sweepLoops <= 1

\* a set() inside a running event loop has found the sweep task running, after
\* an earlier set() created it
AtMostOneSweepTaskWitness ==
    /\ sweepLoops = 1
    /\ cleanupTask = "running"
    /\ evt.op = "set"
    /\ Cardinality(DOMAIN cache) = 2

====
